---- MODULE Spec2Model ----
(***************************************************************************)
(* A model of webpack-deconstructor.js (class WebpackDeconstructor).       *)
(*                                                                         *)
(* Text is modelled at two grains.                                         *)
(*   - Paths and identifiers are sequences of one-character strings, so    *)
(*     that prefix tests, extension stripping and underscore removal are   *)
(*     computed character by character as the code does.  The generated    *)
(*     suffix "__WEBPACK_IMPORTED_MODULE_<n>__" of a local binding is one  *)
(*     element of such a sequence.                                         *)
(*   - A bundle and a module body are sequences of tokens.  A token is a   *)
(*     record [k, a, b]: k names the lexeme, a and b carry its names or    *)
(*     paths.  Each regular expression of the code is translated into its  *)
(*     effect on these token sequences.                                    *)
(*                                                                         *)
(* Three specifications share the module:                                  *)
(*   Spec           one run of deconstruct() over an input bundle          *)
(*   SpecResolve    calculateRelativePath applied to a pair of paths       *)
(*   SpecTransform  transformModuleContent applied to one module body      *)
(***************************************************************************)
EXTENDS Integers, Sequences, FiniteSets, TLC

VARIABLES
    pc,                 \* position of deconstruct(): start, read, parsed, ready, done, unreadable, failed
    registry,           \* the modules of the project that was bundled: [path, body]
    shape,              \* how the input file ends and whether its registry is marked
    bundleContent,      \* the text of the input file
    modules,            \* this.modules: insertion-ordered map, a sequence of [path, content]
    moduleCount,        \* the local counter of parseModules
    outputDir,          \* the output directory on disk: absent, stale or fresh
    written,            \* the writeFileSync calls so far, in order: [path, text]
    cursor,             \* how many entries of this.modules processModules has visited
    fromPath,           \* SpecResolve: first argument of calculateRelativePath
    toPath,             \* SpecResolve: second argument of calculateRelativePath
    relativePath,       \* SpecResolve: the value returned, or Pending
    content,            \* SpecTransform: the body given to transformModuleContent
    currentModulePath,  \* SpecTransform: the path given to transformModuleContent
    transformed         \* SpecTransform: the text returned, or Pending

vars == <<pc, registry, shape, bundleContent, modules, moduleCount, outputDir, written, cursor,
          fromPath, toPath, relativePath, content, currentModulePath, transformed>>

runVars == <<pc, registry, shape, bundleContent, modules, moduleCount, outputDir, written, cursor>>
resolveVars == <<fromPath, toPath, relativePath>>
transformVars == <<content, currentModulePath, transformed>>

\* The value of relativePath before calculateRelativePath has returned.
Pending == <<"pending">>

(***************************************************************************)
(* Bounds.                                                                 *)
(***************************************************************************)
\* Largest number of module entries in the registry of an input bundle.
MaxModules == 2
\* Largest number of fragments in a body given to transformModuleContent.
MaxLines == 3

(***************************************************************************)
(* Strings as sequences of characters.                                     *)
(***************************************************************************)
UpperCase ==
    {"A", "B", "C", "D", "E", "F", "G", "H", "I", "J", "K", "L", "M",
     "N", "O", "P", "Q", "R", "S", "T", "U", "V", "W", "X", "Y", "Z"}
LowerCase ==
    {"a", "b", "c", "d", "e", "f", "g", "h", "i", "j", "k", "l", "m",
     "n", "o", "p", "q", "r", "s", "t", "u", "v", "w", "x", "y", "z"}
Digits == {"0", "1", "2", "3", "4", "5", "6", "7", "8", "9"}

\* String.prototype.startsWith
StartsWith(s, p) ==
    /\ Len(s) >= Len(p)
    /\ SubSeq(s, 1, Len(p)) = p

\* String.prototype.endsWith
EndsWith(s, p) ==
    /\ Len(s) >= Len(p)
    /\ SubSeq(s, Len(s) - Len(p) + 1, Len(s)) = p

\* str.replace(/^\.\//, '')
StripDotSlash(p) ==
    IF StartsWith(p, <<".", "/">>) THEN SubSeq(p, 3, Len(p)) ELSE p

\* The index of the last "/" of p, 0 when there is none.
RECURSIVE LastSlash(_, _)
LastSlash(p, i) ==
    IF i = 0 THEN 0
    ELSE IF p[i] = "/" THEN i
    ELSE LastSlash(p, i - 1)

\* The index of the first "/" of p at or after i, Len(p) + 1 when there is none.
RECURSIVE NextSlash(_, _)
NextSlash(p, i) ==
    IF i > Len(p) THEN i
    ELSE IF p[i] = "/" THEN i
    ELSE NextSlash(p, i + 1)

\* p.split('/')
RECURSIVE SplitFrom(_, _)
SplitFrom(p, i) ==
    LET j == NextSlash(p, i) IN
    IF j > Len(p) THEN <<SubSeq(p, i, Len(p))>>
    ELSE <<SubSeq(p, i, j - 1)>> \o SplitFrom(p, j + 1)

Split(p) == SplitFrom(p, 1)

\* segments.join('/')
RECURSIVE Join(_)
Join(segs) ==
    IF segs = <<>> THEN <<>>
    ELSE IF Len(segs) = 1 THEN segs[1]
    ELSE segs[1] \o <<"/">> \o Join(Tail(segs))

(***************************************************************************)
(* node's path module (posix), for relative paths without a trailing "/".  *)
(***************************************************************************)
\* path.dirname
Dirname(p) ==
    LET i == LastSlash(p, Len(p)) IN
    IF i = 0 THEN <<".">>
    ELSE IF i = 1 THEN <<"/">>
    ELSE SubSeq(p, 1, i - 1)

\* The segments of process.cwd(); relative paths are resolved against it.
Cwd == <<<<"w">>>>

\* path.resolve's normalisation of a list of segments: "" and "." are
\* dropped, ".." removes the segment before it.
RECURSIVE NormalizeSegs(_, _)
NormalizeSegs(done, todo) ==
    IF todo = <<>> THEN done
    ELSE LET s == Head(todo) IN
         IF s = <<>> \/ s = <<".">> THEN NormalizeSegs(done, Tail(todo))
         ELSE IF s = <<".", ".">>
              THEN NormalizeSegs(IF done = <<>> THEN done
                                 ELSE SubSeq(done, 1, Len(done) - 1), Tail(todo))
         ELSE NormalizeSegs(Append(done, s), Tail(todo))

\* path.resolve(p) for a relative p, as a list of segments below the root.
Resolve(p) == NormalizeSegs(Cwd, Split(p))

\* The length of the longest common prefix of two segment lists.
RECURSIVE CommonLen(_, _)
CommonLen(x, y) ==
    IF x = <<>> \/ y = <<>> THEN 0
    ELSE IF Head(x) # Head(y) THEN 0
    ELSE 1 + CommonLen(Tail(x), Tail(y))

\* path.relative(from, to)
PathRelative(from, to) ==
    LET f == Resolve(from)
        t == Resolve(to)
        c == CommonLen(f, t)
        ups == [i \in 1..(Len(f) - c) |-> <<".", ".">>]
    IN Join(ups \o SubSeq(t, c + 1, Len(t)))

\* path.join(dir, p) followed by path.relative(dir, .): where below the output
\* directory a write lands.
PathJoin(dir, p) == Join(NormalizeSegs(<<>>, Split(dir) \o Split(p)))

(***************************************************************************)
(* calculateRelativePath                                                   *)
(***************************************************************************)
calculateRelativePath(from, to) ==
    LET cleanFromPath == StripDotSlash(from)
        cleanToPath == StripDotSlash(to)
        fromDir == Dirname(cleanFromPath)
        toFile == cleanToPath
        rel == PathRelative(fromDir, toFile)
    IN IF ~StartsWith(rel, <<".">>) THEN <<".", "/">> \o rel ELSE rel

(***************************************************************************)
(* Logical module paths used as inputs.                                    *)
(***************************************************************************)
P_x == <<".", "/", "x">>
P_a_js == <<".", "/", "a", ".", "j", "s">>
P_bare_a_js == <<"a", ".", "j", "s">>
P_a_B_ts == <<".", "/", "a", "/", "B", ".", "t", "s">>
P_a_x_js == <<".", "/", "a", "/", "x", ".", "j", "s">>
P_a_env == <<".", "/", "a", "/", ".", "e", "n", "v">>
P_a_b_y_ts == <<".", "/", "a", "/", "b", "/", "y", ".", "t", "s">>
P_h_y_js == <<".", "/", ".", "h", "/", "y", ".", "j", "s">>
P_a == <<".", "/", "a">>
P_s_Main_ts == <<".", "/", "s", "/", "M", "a", "i", "n", ".", "t", "s">>
P_nm_x_js == <<".", "/", "n", "o", "d", "e", "_", "m", "o", "d", "u", "l", "e", "s",
               "/", "x", ".", "j", "s">>

LogicalPaths ==
    {P_x, P_a_js, P_bare_a_js, P_a_B_ts, P_a_x_js, P_a_env, P_a_b_y_ts,
     P_h_y_js, P_a, P_s_Main_ts, P_nm_x_js}

(***************************************************************************)
(* Tokens.  k is one of                                                    *)
(*   whitespace   "nl" a newline; "sp" a run of spaces or tabs             *)
(*   bundle       "registry-open" /******/ ({ ;                             *)
(*                "registry-close" /******/ }); ; "path" /***/ "<a>": ;    *)
(*                "open" /***/ (function(module, __webpack_exports__,      *)
(*                __webpack_require__) { ; "close" \n/***/ }) ; "comma" ,  *)
(*   boilerplate  "strict" "use strict"; ; "rmark" __webpack_require__.r(  *)
(*                __webpack_exports__); ; "himport" /* harmony import */   *)
(*                var <a> = __webpack_require__(/*! .. */ "<b>"); ;        *)
(*                "hdefault" /* harmony import */ var <a>___default =      *)
(*                /*#__PURE__*/__webpack_require__.n(<a>); ; "hexpc"       *)
(*                /* harmony export (binding) */ ; "expbind"               *)
(*                __webpack_require__.d(__webpack_exports__, "<a>",        *)
(*                function() { return <b>; }); ; "reqcall"                 *)
(*                __webpack_require__("<b>") ; "expdefault"                *)
(*                __webpack_exports__["default"] = ; "modexp"              *)
(*                module.exports = <b>; ; "mcomment" /*! .. */             *)
(*   code         "class" class <a> { ; "classx" class <a> extends <b> { ; *)
(*                "func" function <a>( ; "vardecl" const <a> = ; "code"    *)
(*                any other source text, labelled <a> ; "ident" the        *)
(*                identifier <a> ; "usebr" <a>["<b>"] ; "usedef"           *)
(*                <a>___default ; "usedir" <a> , where <a> is a local      *)
(*                binding ending in __WEBPACK_IMPORTED_MODULE_<n>__        *)
(*   output       "export" the qualifier export ; "import-default"         *)
(*                import <a> from '<b>'; ; "import-named" import { <a> }   *)
(*                from '<b>'; ; "export-clause" export { <a> }; ;          *)
(*                "export-default" export default <a>;                     *)
(***************************************************************************)
Tok(k, a, b) == [k |-> k, a |-> a, b |-> b]

\* The value of transformed before transformModuleContent has returned.
PendingText == <<Tok("pending", <<>>, <<>>)>>

NL == Tok("nl", <<>>, <<>>)
SP == Tok("sp", <<>>, <<>>)
Code(label) == Tok("code", <<label>>, <<>>)

\* \s matches the token.
IsSpace(t) == t.k \in {"nl", "sp"}

\* The number of leading tokens of s that \s* consumes.
RECURSIVE SpaceRun(_)
SpaceRun(s) ==
    IF s = <<>> THEN 0
    ELSE IF IsSpace(Head(s)) THEN 1 + SpaceRun(Tail(s))
    ELSE 0

\* The number of trailing whitespace tokens of s.
RECURSIVE SpaceRunBack(_)
SpaceRunBack(s) ==
    IF s = <<>> THEN 0
    ELSE IF IsSpace(s[Len(s)]) THEN 1 + SpaceRunBack(SubSeq(s, 1, Len(s) - 1))
    ELSE 0

\* String.prototype.trim
Trim(s) == SubSeq(s, SpaceRun(s) + 1, Len(s) - SpaceRunBack(s))

\* text.indexOf(pat) on token sequences, from position i; 0 when absent.
RECURSIVE IndexOfFrom(_, _, _)
IndexOfFrom(text, pat, i) ==
    IF i + Len(pat) - 1 > Len(text) THEN 0
    ELSE IF SubSeq(text, i, i + Len(pat) - 1) = pat THEN i
    ELSE IndexOfFrom(text, pat, i + 1)

\* text.replace(pat, '') with a string pattern: the first occurrence goes.
ReplaceFirst(text, pat) ==
    LET i == IndexOfFrom(text, pat, 1) IN
    IF i = 0 THEN text
    ELSE SubSeq(text, 1, i - 1) \o SubSeq(text, i + Len(pat), Len(text))

\* The set of the elements of a sequence.
Range(s) == {s[i] : i \in 1..Len(s)}

\* The smallest element of a non-empty set of numbers.
Min(S) == CHOOSE x \in S : \A y \in S : x <= y

(***************************************************************************)
(* parseModules: moduleRegex on the module map section.                    *)
(***************************************************************************)
RegistryOpen == Tok("registry-open", <<>>, <<>>)
RegistryClose == Tok("registry-close", <<>>, <<>>)
PathDecl(p) == Tok("path", p, <<>>)
Open == Tok("open", <<>>, <<>>)
Close == Tok("close", <<>>, <<>>)
Comma == Tok("comma", <<>>, <<>>)

\* The tail of moduleRegex after the close token at k:  ,?\s*(?=\/\*\*\*\/ "|$)
\* The value is the index after the match (lastIndex), or 0 when the tail
\* does not match.
ModuleTailEnd(s, k) ==
    LET afterComma == IF k + 1 <= Len(s) /\ s[k + 1].k = "comma" THEN k + 2 ELSE k + 1
        stop == afterComma + SpaceRun(SubSeq(s, afterComma, Len(s)))
    IN IF stop > Len(s) \/ s[stop].k = "path" THEN stop ELSE 0

\* moduleRegex tried at the path declaration at i.  Both [\s\S]*? are lazy:
\* the wrapper opening is the first one after i, the body ends at the first
\* close token whose tail matches.  ok is FALSE when there is no match.
moduleRegexAt(s, i) ==
    LET opens == {j \in (i + 1)..Len(s) : s[j].k = "open"}
        j == Min(opens)
        closes == {k \in (j + 1)..Len(s) : s[k].k = "close" /\ ModuleTailEnd(s, k) # 0}
        k == Min(closes)
    IN IF s[i].k # "path" \/ opens = {} THEN [ok |-> FALSE]
       ELSE IF closes = {} THEN [ok |-> FALSE]
       ELSE [ok |-> TRUE,
             modulePath |-> s[i].a,
             moduleContent |-> SubSeq(s, j + 1, k - 1),
             lastIndex |-> ModuleTailEnd(s, k)]

\* The successive results of moduleRegex.exec from position pos on.
RECURSIVE moduleRegexExec(_, _)
moduleRegexExec(s, pos) ==
    LET starts == {i \in pos..Len(s) : moduleRegexAt(s, i).ok} IN
    IF starts = {} THEN <<>>
    ELSE LET m == moduleRegexAt(s, Min(starts))
         IN <<m>> \o moduleRegexExec(s, m.lastIndex)

\* modulePath.startsWith('./node_modules/')
NodeModulesPrefix ==
    <<".", "/", "n", "o", "d", "e", "_", "m", "o", "d", "u", "l", "e", "s", "/">>

IsExcluded(modulePath) == StartsWith(modulePath, NodeModulesPrefix)

\* Map.prototype.set on the insertion-ordered map this.modules.
MapSet(m, key, value) ==
    IF \E i \in 1..Len(m) : m[i].path = key
    THEN [i \in 1..Len(m) |-> IF m[i].path = key THEN value ELSE m[i]]
    ELSE Append(m, value)

\* The body of the while loop of parseModules over all matches: the map and
\* the counter it leaves.
RECURSIVE RecordMatches(_, _, _)
RecordMatches(matches, m, count) ==
    IF matches = <<>> THEN [modules |-> m, moduleCount |-> count]
    ELSE LET match == Head(matches) IN
         IF ~IsExcluded(match.modulePath)
         THEN RecordMatches(Tail(matches),
                            MapSet(m, match.modulePath,
                                   [path |-> match.modulePath,
                                    content |-> Trim(match.moduleContent)]),
                            count + 1)
         ELSE RecordMatches(Tail(matches), m, count)

\* bundleContent.indexOf('/******/ ({'), 0 when absent.
ModuleMapStart(bundle) == IndexOfFrom(bundle, <<RegistryOpen>>, 1)

\* What parseModules leaves in this.modules and moduleCount.
parseModules(bundle) ==
    LET moduleMapSection == SubSeq(bundle, ModuleMapStart(bundle), Len(bundle))
    IN RecordMatches(moduleRegexExec(moduleMapSection, 1), <<>>, 0)

(***************************************************************************)
(* Identifiers.  A local binding that webpack generates for a dependency   *)
(* is a stem followed by one Suffix element.                               *)
(***************************************************************************)
\* __WEBPACK_IMPORTED_MODULE_<n>__ , for the indices used here
Suffix == {"__WEBPACK_IMPORTED_MODULE_0__", "__WEBPACK_IMPORTED_MODULE_1__"}

\* The same text without its last two underscores: what is left of a suffix
\* in front of ___default.
Unterminated(x) ==
    IF x = "__WEBPACK_IMPORTED_MODULE_0__" THEN "__WEBPACK_IMPORTED_MODULE_0"
    ELSE "__WEBPACK_IMPORTED_MODULE_1"

IdentStart == UpperCase \cup LowerCase \cup {"_"} \cup Suffix
IdentPart == IdentStart \cup Digits

\* varName.includes('__WEBPACK_IMPORTED_MODULE_')
HasSuffix(name) == \E i \in 1..Len(name) : name[i] \in Suffix

\* Does /^_(.+?)__WEBPACK_IMPORTED_MODULE_\d+__$/ match varName?  The name
\* starts with "_", ends with its suffix and has a stem between the two.
NameMatch(varName) ==
    /\ Len(varName) >= 3
    /\ varName[1] = "_"
    /\ varName[Len(varName)] \in Suffix
    /\ \A i \in 2..(Len(varName) - 1) : varName[i] \notin Suffix

\* nameMatch[1]
NameMatchStem(varName) == SubSeq(varName, 2, Len(varName) - 1)

\* /^[A-Z][a-zA-Z0-9]*$/.test(importName) && !importName.includes('_')
LooksLikeDefault(importName) ==
    /\ importName # <<>>
    /\ importName[1] \in UpperCase
    /\ \A i \in 1..Len(importName) :
           importName[i] \in UpperCase \cup LowerCase \cup Digits
    /\ \A i \in 1..Len(importName) : importName[i] # "_"

\* importName.replace(/_/g, '')
RemoveUnderscores(name) == SelectSeq(name, LAMBDA c : c # "_")

\* relativePath.replace(/\.(ts|js)$/, '')
StripExtension(p) ==
    IF EndsWith(p, <<".", "t", "s">>) \/ EndsWith(p, <<".", "j", "s">>)
    THEN SubSeq(p, 1, Len(p) - 3)
    ELSE p

\* varName.match(/([a-zA-Z_$][a-zA-Z0-9_$]*)/): the first identifier in the
\* text, <<>> when there is none.
RECURSIVE FirstIdentifier(_)
FirstIdentifier(name) ==
    IF name = <<>> THEN <<>>
    ELSE IF Head(name) \in IdentStart
         THEN LET rest == Tail(name)
                  stop == IF \E i \in 1..Len(rest) : rest[i] \notin IdentPart
                          THEN Min({i \in 1..Len(rest) : rest[i] \notin IdentPart})
                          ELSE Len(rest) + 1
              IN <<Head(name)>> \o SubSeq(rest, 1, stop - 1)
    ELSE FirstIdentifier(Tail(name))

NoStatement == Tok("null", <<>>, <<>>)

generateImportStatement(varName, relPath) ==
    LET cleanPath == StripExtension(relPath)
        importName == NameMatchStem(varName)
        fallbackMatch == FirstIdentifier(varName)
    IN IF HasSuffix(varName) /\ NameMatch(varName)
       THEN IF LooksLikeDefault(importName)
            THEN Tok("import-default", importName, cleanPath)
            ELSE Tok("import-named", RemoveUnderscores(importName), cleanPath)
       ELSE IF fallbackMatch # <<>>
            THEN Tok("import-named", fallbackMatch, cleanPath)
       ELSE NoStatement

(***************************************************************************)
(* replaceImportUsage                                                      *)
(***************************************************************************)
\* The replacer of defaultUsageRegex: varName is the binding in front of
\* ___default, that is stem plus unterminated suffix.
DefaultUsageName(binding) ==
    IF NameMatch(binding)
    THEN NameMatchStem(binding)
    ELSE SubSeq(binding, 1, Len(binding) - 1)
         \o <<Unterminated(binding[Len(binding)])>>

\* Where directUsageRegex matches inside a binding: at its first "_" that is
\* followed by an identifier start other than the suffix; 0 when nowhere.
DirectUsageAt(binding) ==
    LET starts == {i \in 1..(Len(binding) - 2) :
                       /\ binding[i] = "_"
                       /\ binding[i + 1] \in IdentStart \ Suffix}
    IN IF starts = {} THEN 0 ELSE Min(starts)

\* directUsageRegex replaced by '$1': the "_" at the match start and the
\* suffix go, the rest of the binding stays.
DirectUsageName(binding) ==
    LET i == DirectUsageAt(binding) IN
    IF i = 0 THEN binding
    ELSE SubSeq(binding, 1, i - 1) \o SubSeq(binding, i + 1, Len(binding) - 1)

\* The three replacements on one token.  Only the usage tokens hold a
\* binding suffix; every other token is text that none of the three
\* expressions matches.
ReplaceUsageTok(t) ==
    IF t.k = "usebr" THEN Tok("ident", t.b, <<>>)
    ELSE IF t.k = "usedef" THEN Tok("ident", DefaultUsageName(t.a), <<>>)
    ELSE IF t.k = "usedir" THEN Tok("ident", DirectUsageName(t.a), <<>>)
    ELSE t

replaceImportUsage(text) == [i \in 1..Len(text) |-> ReplaceUsageTok(text[i])]

(***************************************************************************)
(* Matches of a global expression <lexeme>\s*\n? : the lexeme of kind k    *)
(* with the whitespace that follows it.                                    *)
(***************************************************************************)
\* The full match that starts at the token at i.
FullMatchAt(text, i) ==
    SubSeq(text, i, i + SpaceRun(SubSeq(text, i + 1, Len(text))))

\* All full matches of the tokens of kind k, in text order.
RECURSIVE MatchesFrom(_, _, _)
MatchesFrom(text, k, i) ==
    IF i > Len(text) THEN <<>>
    ELSE IF text[i].k = k
         THEN <<FullMatchAt(text, i)>>
              \o MatchesFrom(text, k, i + Len(FullMatchAt(text, i)))
    ELSE MatchesFrom(text, k, i + 1)

Matches(text, k) == MatchesFrom(text, k, 1)

\* text.replace(/<lexeme>\s*/g, ''): every match goes.
RECURSIVE RemoveWithSpace(_, _)
RemoveWithSpace(text, k) ==
    IF text = <<>> THEN <<>>
    ELSE IF Head(text).k = k
         THEN RemoveWithSpace(SubSeq(text, 2 + SpaceRun(Tail(text)), Len(text)), k)
    ELSE <<Head(text)>> \o RemoveWithSpace(Tail(text), k)

\* text.replace(/<lexeme>/g, ''): every token of kind k goes.
RemoveKind(text, k) == SelectSeq(text, LAMBDA t : t.k # k)

(***************************************************************************)
(* removeWebpackBoilerplate                                                *)
(***************************************************************************)
removeWebpackBoilerplate(text) ==
    LET cleaned == IF text # <<>> /\ text[1].k = "strict"
                   THEN SubSeq(text, 2 + SpaceRun(Tail(text)), Len(text))
                   ELSE text
    IN RemoveWithSpace(cleaned, "rmark")

(***************************************************************************)
(* transformImports                                                        *)
(***************************************************************************)
\* The first while loop: one iteration per match of harmonyImportRegex in
\* the text the function was given.  st is [transformed, imports].
RECURSIVE HarmonyImportLoop(_, _, _)
HarmonyImportLoop(matches, modulePath, st) ==
    IF matches = <<>> THEN st
    ELSE LET fullMatch == Head(matches)
             varName == fullMatch[1].a
             webpackPath == fullMatch[1].b
             rel == calculateRelativePath(modulePath, webpackPath)
             importStatement == generateImportStatement(varName, rel)
         IN IF importStatement # NoStatement
            THEN HarmonyImportLoop(Tail(matches), modulePath,
                     [transformed |-> ReplaceFirst(st.transformed, fullMatch),
                      imports |-> Append(st.imports, importStatement)])
            ELSE HarmonyImportLoop(Tail(matches), modulePath, st)

\* The second while loop: the matches of defaultImportRegex are removed.
RECURSIVE RemoveMatches(_, _)
RemoveMatches(matches, text) ==
    IF matches = <<>> THEN text
    ELSE RemoveMatches(Tail(matches), ReplaceFirst(text, Head(matches)))

\* imports.join('\n')
RECURSIVE JoinLines(_)
JoinLines(stmts) ==
    IF stmts = <<>> THEN <<>>
    ELSE IF Len(stmts) = 1 THEN stmts
    ELSE <<Head(stmts), NL>> \o JoinLines(Tail(stmts))

transformImports(text, modulePath) ==
    LET st == HarmonyImportLoop(Matches(text, "himport"), modulePath,
                                [transformed |-> text, imports |-> <<>>])
        noDefault == RemoveMatches(Matches(text, "hdefault"), st.transformed)
        replaced == replaceImportUsage(noDefault)
    IN IF Len(st.imports) > 0
       THEN JoinLines(st.imports) \o <<NL, NL>> \o replaced
       ELSE replaced

(***************************************************************************)
(* transformExports                                                        *)
(***************************************************************************)
\* Does the expression built from the text pattern match exactly the name?
\* The pattern is spliced into new RegExp() unescaped, so a "." in it
\* matches any one character; every other character used here is literal.
PatternMatches(pattern, name) ==
    /\ Len(pattern) = Len(name)
    /\ \A i \in 1..Len(name) : pattern[i] = "." \/ pattern[i] = name[i]

\* new RegExp(<keyword>\\s+${value}\\s*<bracket>).test(text), for the
\* declaration tokens of kind k.
DeclarationTest(text, k, value) ==
    \E i \in 1..Len(text) : text[i].k = k /\ PatternMatches(value, text[i].a)

generateExportStatement(exportName, exportValue, text) ==
    IF DeclarationTest(text, "class", exportValue)
    THEN [type |-> "class", name |-> exportValue]
    ELSE IF DeclarationTest(text, "func", exportValue)
    THEN [type |-> "function", name |-> exportValue]
    ELSE IF DeclarationTest(text, "vardecl", exportValue)
    THEN [type |-> "variable", name |-> exportValue]
    ELSE [type |-> "variable", name |-> exportValue]

\* The first while loop: one iteration per match of exportBindingRegex in
\* the text the function was given.  st is [transformed, exports].
RECURSIVE ExportBindingLoop(_, _)
ExportBindingLoop(matches, st) ==
    IF matches = <<>> THEN st
    ELSE LET fullMatch == Head(matches)
             exportName == fullMatch[1].a
             exportValue == fullMatch[1].b
             exportStatement ==
                 generateExportStatement(exportName, exportValue, st.transformed)
         IN ExportBindingLoop(Tail(matches),
                [transformed |-> ReplaceFirst(st.transformed, fullMatch),
                 exports |-> Append(st.exports, exportStatement)])

\* The second while loop: one iteration per match of moduleExportsRegex.
RECURSIVE ModuleExportsLoop(_, _)
ModuleExportsLoop(matches, st) ==
    IF matches = <<>> THEN st
    ELSE LET fullMatch == Head(matches)
             exportValue == fullMatch[1].b
         IN ModuleExportsLoop(Tail(matches),
                [transformed |-> ReplaceFirst(st.transformed, fullMatch),
                 exports |-> Append(st.exports,
                                    [type |-> "string", name |-> exportValue])])

ExportKw == Tok("export", <<>>, <<>>)

\* text.replace(new RegExp(<keyword>\\s+${name}\\s*<bracket>, 'g'),
\*              export <keyword> ${name}<bracket>)
RECURSIVE ExportDeclarations(_, _, _)
ExportDeclarations(text, k, name) ==
    IF text = <<>> THEN <<>>
    ELSE IF Head(text).k = k /\ PatternMatches(name, Head(text).a)
         THEN <<ExportKw, Tok(k, name, <<>>)>> \o ExportDeclarations(Tail(text), k, name)
    ELSE <<Head(text)>> \o ExportDeclarations(Tail(text), k, name)

RECURSIVE applyExportStatements(_, _)
applyExportStatements(text, exports) ==
    IF exports = <<>> THEN text
    ELSE LET exportInfo == Head(exports)
             next ==
                 IF exportInfo.type = "string"
                 THEN text \o <<NL, Tok("export-default", exportInfo.name, <<>>)>>
                 ELSE IF exportInfo.type = "class"
                 THEN ExportDeclarations(text, "class", exportInfo.name)
                 ELSE IF exportInfo.type = "function"
                 THEN ExportDeclarations(text, "func", exportInfo.name)
                 ELSE text \o <<NL, Tok("export-clause", exportInfo.name, <<>>)>>
         IN applyExportStatements(next, Tail(exports))

transformExports(text) ==
    LET bound == ExportBindingLoop(Matches(text, "expbind"),
                                   [transformed |-> text, exports |-> <<>>])
        st == ModuleExportsLoop(Matches(text, "modexp"), bound)
    IN applyExportStatements(st.transformed, st.exports)

(***************************************************************************)
(* cleanupWebpackArtifacts                                                 *)
(***************************************************************************)
\* text.replace(/\n{3,}/g, '\n\n')
RECURSIVE NewlineRun(_)
NewlineRun(text) ==
    IF text = <<>> THEN 0
    ELSE IF Head(text).k = "nl" THEN 1 + NewlineRun(Tail(text))
    ELSE 0

RECURSIVE CollapseNewlines(_)
CollapseNewlines(text) ==
    IF text = <<>> THEN <<>>
    ELSE LET n == NewlineRun(text) IN
         IF n >= 3 THEN <<NL, NL>> \o CollapseNewlines(SubSeq(text, n + 1, Len(text)))
         ELSE IF n >= 1 THEN SubSeq(text, 1, n) \o CollapseNewlines(SubSeq(text, n + 1, Len(text)))
         ELSE <<Head(text)>> \o CollapseNewlines(Tail(text))

\* text.replace(/[ \t]+$/gm, ''): horizontal whitespace in front of a
\* newline or of the end of the text goes.
RECURSIVE HorizontalRun(_)
HorizontalRun(text) ==
    IF text = <<>> THEN 0
    ELSE IF Head(text).k = "sp" THEN 1 + HorizontalRun(Tail(text))
    ELSE 0

RECURSIVE StripLineEnds(_)
StripLineEnds(text) ==
    IF text = <<>> THEN <<>>
    ELSE LET n == HorizontalRun(text) IN
         IF n >= 1
         THEN IF n = Len(text) \/ text[n + 1].k = "nl"
              THEN StripLineEnds(SubSeq(text, n + 1, Len(text)))
              ELSE SubSeq(text, 1, n) \o StripLineEnds(SubSeq(text, n + 1, Len(text)))
         ELSE <<Head(text)>> \o StripLineEnds(Tail(text))

\* cleanupWebpackArtifacts without the first replacement (line 413): the
\* calls that were not transformed stay.
cleanupKeepingCalls(text) ==
    LET noExportComments == RemoveWithSpace(text, "hexpc")
        noModuleComments == RemoveKind(noExportComments, "mcomment")
        collapsed == CollapseNewlines(noModuleComments)
    IN StripLineEnds(collapsed)

cleanupWebpackArtifacts(text) ==
    LET noCalls == RemoveKind(text, "reqcall")
        noExportComments == RemoveWithSpace(noCalls, "hexpc")
        noModuleComments == RemoveKind(noExportComments, "mcomment")
        collapsed == CollapseNewlines(noModuleComments)
    IN StripLineEnds(collapsed)

(***************************************************************************)
(* transformModuleContent                                                  *)
(***************************************************************************)
transformModuleContent(text, modulePath) ==
    LET noBoilerplate == removeWebpackBoilerplate(text)
        imported == transformImports(noBoilerplate, modulePath)
        exported == transformExports(imported)
        cleaned == cleanupWebpackArtifacts(exported)
    IN Trim(cleaned)

(***************************************************************************)
(* Names and bodies used as inputs.                                        *)
(***************************************************************************)
S0 == "__WEBPACK_IMPORTED_MODULE_0__"
S1 == "__WEBPACK_IMPORTED_MODULE_1__"

N_Foo == <<"F", "o", "o">>
N_Main == <<"M", "a", "i", "n">>
N_Base == <<"B", "a", "s", "e">>
N_default == <<"d", "e", "f", "a", "u", "l", "t">>
N_obj_Foo == <<"o", "b", "j", ".", "F", "o", "o">>

\* _a_B__WEBPACK_IMPORTED_MODULE_0__ : the binding webpack derives from the
\* request ./a/B
V_a_B == <<"_", "a", "_", "B", S0>>
\* _Foo__WEBPACK_IMPORTED_MODULE_0__ : from the request ./Foo
V_Foo == <<"_", "F", "o", "o", S0>>
\* react__WEBPACK_IMPORTED_MODULE_1__ : from the request react
V_react == <<"r", "e", "a", "c", "t", S1>>

HarmonyImport(varName, webpackPath) == Tok("himport", varName, webpackPath)
HarmonyDefault(varName) == Tok("hdefault", varName, <<>>)
ExportBinding(exportName, exportValue) == Tok("expbind", exportName, exportValue)
RequireCall(webpackPath) == Tok("reqcall", <<>>, webpackPath)
UseBracket(varName, symbol) == Tok("usebr", varName, symbol)
UseDefault(varName) == Tok("usedef", varName, <<>>)
UseDirect(varName) == Tok("usedir", varName, <<>>)
ClassDecl(name) == Tok("class", name, <<>>)
ClassExtends(name, base) == Tok("classx", name, base)
FuncDecl(name) == Tok("func", name, <<>>)
VarDecl(name) == Tok("vardecl", name, <<>>)

\* init();
B_plain == <<Code("init();")>>

\* /* harmony import */ var _a_B__..0__ = __webpack_require__(/*! ./a/B */ "./a/B.ts");
\* _a_B__..0__["Foo"].init();
B_import ==
    <<HarmonyImport(V_a_B, P_a_B_ts), NL,
      UseBracket(V_a_B, N_Foo), Code(".init();")>>

\* var x = __webpack_require__("./a/x.js");   (no harmony annotation)
B_require == <<Code("var x = "), RequireCall(P_a_x_js), Code(";")>>

\* A template literal (or a block comment) that holds the wrapper-close
\* text on a line of its own, followed by more text of the literal.
B_closeText == <<Code("literal opens"), Close, Code("literal closes")>>

\* A template literal that holds the wrapper-close text, a comma and, on
\* the next line, a path declaration  /***/ "./x":
B_closeAndPathText ==
    <<Code("literal opens"), Close, Comma, NL, PathDecl(P_x), Code("literal closes")>>

RunBodies == {B_plain, B_import, B_require, B_closeText, B_closeAndPathText}

RunPaths == {P_a_js, P_bare_a_js, P_a, P_a_x_js, P_nm_x_js}

\* One registry entry: [path, body].  The entries of a registry are the keys
\* of one object literal: their paths differ.
ModuleInputs == [path : RunPaths, body : RunBodies]

\* The sequences over S of length at most n.
RECURSIVE SeqsUpTo(_, _)
SeqsUpTo(S, n) ==
    IF n = 0 THEN {<<>>}
    ELSE LET shorter == SeqsUpTo(S, n - 1)
         IN shorter \cup {Append(q, x) : q \in {r \in shorter : Len(r) = n - 1}, x \in S}

\* The text of one registry entry.
EntryText(m) == <<PathDecl(m.path), NL, Open, NL, NL>> \o m.body \o <<NL, Close>>

\* The entries of a registry, separated by ",\n\n".
RECURSIVE RegistryText(_)
RegistryText(ms) ==
    IF ms = <<>> THEN <<>>
    ELSE IF Len(ms) = 1 THEN EntryText(ms[1])
    ELSE EntryText(ms[1]) \o <<Comma, NL, NL>> \o RegistryText(Tail(ms))

\* The three shapes of input file: a whole bundle, whose registry is closed
\* by /******/ }); a bundle that ends right after its last module; a file
\* without the registry opening.
BundleText(ms, kind) ==
    IF kind = "whole"
    THEN <<Code("bootstrap"), NL, RegistryOpen, NL, NL>> \o RegistryText(ms)
         \o <<NL, NL, RegistryClose>>
    ELSE IF kind = "cut"
    THEN <<Code("bootstrap"), NL, RegistryOpen, NL, NL>> \o RegistryText(ms)
    ELSE <<Code("bootstrap"), NL>> \o RegistryText(ms)

Shapes == {"whole", "cut", "unmarked"}

\* The variables of a specification that does not use them.
IdleRun ==
    /\ pc = "idle"
    /\ registry = <<>>
    /\ shape = "none"
    /\ bundleContent = <<>>
    /\ modules = <<>>
    /\ moduleCount = 0
    /\ outputDir = "absent"
    /\ written = <<>>
    /\ cursor = 0

IdleResolve ==
    /\ fromPath = <<>>
    /\ toPath = <<>>
    /\ relativePath = Pending

IdleTransform ==
    /\ content = <<>>
    /\ currentModulePath = <<>>
    /\ transformed = PendingText

(***************************************************************************)
(* Spec: one run of deconstruct().                                         *)
(***************************************************************************)
Init ==
    /\ IdleResolve
    /\ IdleTransform
    /\ pc = "start"
    /\ registry \in SeqsUpTo(ModuleInputs, MaxModules)
    /\ \A i, j \in 1..Len(registry) : i # j => registry[i].path # registry[j].path
    /\ shape \in Shapes
    /\ bundleContent = BundleText(registry, shape)
    /\ modules = <<>>
    /\ moduleCount = 0
    /\ outputDir \in {"absent", "stale"}
    /\ written = <<>>
    /\ cursor = 0

\* readBundle: the file is read, or reading throws and deconstruct exits.
ReadBundle ==
    /\ pc = "start"
    /\ pc' \in {"read", "unreadable"}
    /\ UNCHANGED <<registry, shape, bundleContent, modules, moduleCount, outputDir, written, cursor>>
    /\ UNCHANGED resolveVars
    /\ UNCHANGED transformVars

\* ParseThrows without the test of moduleCount at line 94.
ParseThrowsWithoutCountTest(bundle) == ModuleMapStart(bundle) = 0

\* Does parseModules throw on the bundle?
ParseThrows(bundle) ==
    IF ModuleMapStart(bundle) = 0 THEN TRUE
    ELSE parseModules(bundle).moduleCount = 0

\* parseModules; a throw is caught by deconstruct, which exits.
ParseModules ==
    /\ pc = "read"
    /\ IF ModuleMapStart(bundleContent) = 0
       THEN UNCHANGED <<modules, moduleCount>>
       ELSE /\ modules' = parseModules(bundleContent).modules
            /\ moduleCount' = parseModules(bundleContent).moduleCount
    /\ pc' = IF ParseThrows(bundleContent) THEN "failed" ELSE "parsed"
    /\ UNCHANGED <<registry, shape, bundleContent, outputDir, written, cursor>>
    /\ UNCHANGED resolveVars
    /\ UNCHANGED transformVars

\* createOutputDirectory: an existing directory is removed, a new one made.
CreateOutputDirectory ==
    /\ pc = "parsed"
    /\ outputDir' = "fresh"
    /\ pc' = "ready"
    /\ UNCHANGED <<registry, shape, bundleContent, modules, moduleCount, written, cursor>>
    /\ UNCHANGED resolveVars
    /\ UNCHANGED transformVars

\* The files below the output directory.
Files(log) == {log[i].path : i \in 1..Len(log)}

\* The proper prefixes of a path that name its directories.
DirsOf(p) ==
    LET segs == Split(p) IN {Join(SubSeq(segs, 1, n)) : n \in 1..(Len(segs) - 1)}

\* The directories below the output directory.
Dirs(log) == UNION {DirsOf(log[i].path) : i \in 1..Len(log)}

\* fs.mkdirSync(dirPath, {recursive: true}) throws when a file is in the way;
\* fs.writeFileSync(outputPath) throws when outputPath is a directory.
WriteThrows(log, outputPath) ==
    \/ DirsOf(outputPath) \cap Files(log) # {}
    \/ outputPath \in Dirs(log)

\* processModule on one entry of this.modules: the log of writes it leaves.
\* An error is caught and reported, and nothing is written.
processModule(log, moduleData) ==
    LET cleanPath == StripDotSlash(moduleData.path)
        outputPath == PathJoin(<<>>, cleanPath)
        transformedContent == transformModuleContent(moduleData.content, moduleData.path)
    IN IF WriteThrows(log, outputPath) THEN log
       ELSE Append(log, [module |-> moduleData.path,
                         path |-> outputPath,
                         text |-> transformedContent])

\* One iteration of the loop of processModules.
ProcessModule ==
    /\ pc = "ready"
    /\ cursor < Len(modules)
    /\ written' = processModule(written, modules[cursor + 1])
    /\ cursor' = cursor + 1
    /\ UNCHANGED <<pc, registry, shape, bundleContent, modules, moduleCount, outputDir>>
    /\ UNCHANGED resolveVars
    /\ UNCHANGED transformVars

\* The loop of processModules is over and deconstruct returns.
Finish ==
    /\ pc = "ready"
    /\ cursor = Len(modules)
    /\ pc' = "done"
    /\ UNCHANGED <<registry, shape, bundleContent, modules, moduleCount, outputDir, written, cursor>>
    /\ UNCHANGED resolveVars
    /\ UNCHANGED transformVars

Next ==
    \/ ReadBundle
    \/ ParseModules
    \/ CreateOutputDirectory
    \/ ProcessModule
    \/ Finish

Spec == Init /\ [][Next]_vars

(***************************************************************************)
(* Properties of a run (Spec).                                             *)
(***************************************************************************)
\* Does the text hold a token of kind k?
Holds(text, k) == \E i \in 1..Len(text) : text[i].k = k

\* The application modules of the bundled project, in registry order.
ApplicationEntries == SelectSeq(registry, LAMBDA m : ~IsExcluded(m.path))

\* The paths of a sequence of records.
PathsOf(ms) == {ms[i].path : i \in 1..Len(ms)}

\* C1: a fatal input error aborts the run before any output is produced.  A
\* file without the registry marker, or one that leaves zero module records
\* after filtering, never gets past parseModules, and a failed run has
\* neither cleaned nor created the output directory nor written a file.
C1_FatalErrorBeforeOutput ==
    /\ pc \in {"parsed", "ready", "done"} =>
           /\ ModuleMapStart(bundleContent) # 0
           /\ modules # <<>>
    /\ pc \in {"failed", "unreadable"} =>
           /\ outputDir # "fresh"
           /\ written = <<>>
           /\ cursor = 0

\* A run that failed in parseModules because the only module of the
\* registry is an excluded one, with the output directory of an earlier
\* run still on disk.
C1_Witness ==
    /\ pc = "failed"
    /\ ModuleMapStart(bundleContent) # 0
    /\ Len(registry) = 1
    /\ ApplicationEntries = <<>>
    /\ moduleCount = 0
    /\ outputDir = "stale"

\* The registry holds no text that resembles a wrapper token inside a body.
PlainBodies == \A i \in 1..Len(registry) : ~Holds(registry[i].body, "close")

\* C2: scanner completeness and filtering.  For a bundle whose registry
\* holds K application modules and M excluded ones, in any order and
\* including the last module of the registry, parseModules records exactly
\* the K application modules, and no excluded module is written.
C2_ScannerCompleteness ==
    /\ (pc \in {"parsed", "ready", "done", "failed"} /\ ModuleMapStart(bundleContent) # 0
        /\ PlainBodies) =>
           /\ PathsOf(modules) = PathsOf(ApplicationEntries)
           /\ moduleCount = Len(ApplicationEntries)
    /\ \A i \in 1..Len(written) : ~IsExcluded(written[i].module)

\* The record of the registry entry at i: same path, whole body.
RecordedWhole(i) ==
    \E r \in 1..Len(modules) :
        /\ modules[r].path = registry[i].path
        /\ modules[r].content = registry[i].body

\* C3: scanner boundary correctness.  When the body of an application
\* module holds text that resembles the wrapper-close token, its record
\* holds the whole body and the application module after it is recorded
\* under its own path.  Stated for the bundles whose registry runs to the
\* end of the input, where the scanner reaches the last module.
C3_ScannerBoundary ==
    (pc \in {"parsed", "ready", "done", "failed"} /\ shape = "cut") =>
        \A i \in 1..Len(registry) :
            (/\ Holds(registry[i].body, "close")
             /\ ~IsExcluded(registry[i].path))
            => /\ RecordedWhole(i)
               /\ (i < Len(registry) /\ ~IsExcluded(registry[i + 1].path))
                      => RecordedWhole(i + 1)

\* The output path of a recorded module: its path without the leading "./",
\* below the output directory.
OutputPathOf(modulePath) == PathJoin(<<>>, StripDotSlash(modulePath))

\* C10: no destination collisions within one run.  Recorded modules have
\* distinct logical paths and distinct output paths, no output file is
\* written twice, and as many files are written as the scanner counted.
C10_NoDestinationCollision ==
    pc = "done" =>
        /\ \A i, j \in 1..Len(modules) :
               i # j => /\ modules[i].path # modules[j].path
                        /\ OutputPathOf(modules[i].path) # OutputPathOf(modules[j].path)
        /\ \A i, j \in 1..Len(written) : i # j => written[i].path # written[j].path
        /\ Len(written) = moduleCount

\* No recorded module's output path is a directory of another's, so that
\* no mkdirSync or writeFileSync of the run throws.
NoBlockedDestination ==
    \A i, j \in 1..Len(modules) :
        OutputPathOf(modules[i].path) \notin DirsOf(OutputPathOf(modules[j].path))

\* A module with an annotated dependency load is rewritten as usual: an
\* import statement replaces the load and the usage is a plain identifier.
RewrittenAsUsual(text) ==
    /\ Holds(text, "import-named")
    /\ ~Holds(text, "himport")
    /\ ~Holds(text, "usebr")

Tree(log) ==
    [f \in Files(log) |->
        LET last == CHOOSE i \in 1..Len(log) :
                        /\ log[i].path = f
                        /\ \A j \in 1..Len(log) : log[j].path = f => j <= i
        IN log[last].text]

\* The orders in which n modules can be visited.
Orders(n) ==
    {o \in [1..n -> 1..n] : \A i, j \in 1..n : i # j => o[i] # o[j]}

\* The log of writes of processModules when the first k modules of the
\* order o are visited, each by processModule.
RECURSIVE ProcessIn(_, _)
ProcessIn(o, k) ==
    IF k = 0 THEN <<>>
    ELSE processModule(ProcessIn(o, k - 1), modules[o[k]])

\* C11: module independence.  The text written for a module is the
\* transform of its own body under its own path, and visiting the recorded
\* modules in any order leaves the same files with the same texts as the
\* run did.
C11_ModuleIndependence ==
    pc = "done" =>
        /\ \A w \in 1..Len(written) :
               \E i \in 1..Len(modules) :
                   /\ modules[i].path = written[w].module
                   /\ written[w].text
                          = transformModuleContent(modules[i].content, modules[i].path)
        /\ \A o \in Orders(Len(modules)) :
               Tree(ProcessIn(o, Len(modules))) = Tree(written)

(***************************************************************************)
(* SpecTransform: transformModuleContent on bodies put together from       *)
(* fragments of webpack output.                                            *)
(***************************************************************************)
HarmonyExportComment == Tok("hexpc", <<>>, <<>>)

\* "use strict";
\* __webpack_require__.r(__webpack_exports__);
F_strict == <<Tok("strict", <<>>, <<>>), NL, Tok("rmark", <<>>, <<>>), NL>>

\* /* harmony import */ var _a_B__..0__ = __webpack_require__(/*! ./a/B */ "./a/B.ts");
F_import == <<HarmonyImport(V_a_B, P_a_B_ts), NL>>

\* _a_B__..0__["Foo"].init();
F_use == <<UseBracket(V_a_B, N_Foo), Code(".init();"), NL>>

\* /* harmony import */ var _Foo__..0__ = __webpack_require__(/*! ./Foo */ "./a/B.ts");
\* /* harmony import */ var _Foo__..0___default = /*#__PURE__*/__webpack_require__.n(_Foo__..0__);
\* _Foo__..0___default();
F_importDefault ==
    <<HarmonyImport(V_Foo, P_a_B_ts), NL, HarmonyDefault(V_Foo), NL,
      UseDefault(V_Foo), Code("();"), NL>>

\* /* harmony import */ var react__..1__ = __webpack_require__(/*! react */ "./node_modules/x.js");
\* react__..1__.render();
F_importPackage ==
    <<HarmonyImport(V_react, P_nm_x_js), NL, UseDirect(V_react), Code(".render();"), NL>>

\* /* harmony export (binding) */ __webpack_require__.d(__webpack_exports__, "Main", function() { return Main; });
F_exportMain == <<HarmonyExportComment, SP, ExportBinding(N_Main, N_Main), NL>>

\* ... "default", function() { return Main; });
F_exportDefault == <<HarmonyExportComment, SP, ExportBinding(N_default, N_Main), NL>>

\* ... "Foo", function() { return obj.Foo; });
F_exportMember == <<ExportBinding(N_Foo, N_obj_Foo), NL>>

\* class Main { }
F_classMain == <<ClassDecl(N_Main), Code("}"), NL>>

\* class Main extends Base { }
F_classExtends == <<ClassExtends(N_Main, N_Base), Code("}"), NL>>

\* function Main() {}
F_funcMain == <<FuncDecl(N_Main), Code(") {}"), NL>>

\* const Main = 1;
F_varMain == <<VarDecl(N_Main), Code("1;"), NL>>

\* var x = __webpack_require__("./a/x.js");
F_require == <<Code("var x = "), RequireCall(P_a_x_js), Code(";"), NL>>

\* /* harmony default export */ __webpack_exports__["default"] = (Main);
F_exportsDefault == <<Tok("expdefault", <<>>, <<>>), Code("(Main);"), NL>>

\* module.exports = Main;
\* /*! exports provided: default */
F_moduleExports == <<Tok("modexp", <<>>, N_Main), NL, Tok("mcomment", <<>>, <<>>), NL>>

\* Three blank lines that hold their indentation.
F_indentedBlankLines == <<SP, NL, SP, NL, SP, NL>>

Fragments ==
    {F_strict, F_import, F_use, F_importDefault, F_importPackage, F_exportMain,
     F_exportDefault, F_exportMember, F_classMain, F_classExtends, F_funcMain,
     F_varMain, F_require, F_exportsDefault, F_moduleExports,
     F_indentedBlankLines}

\* The text of a sequence of fragments.
RECURSIVE Concat(_)
Concat(fs) == IF fs = <<>> THEN <<>> ELSE Head(fs) \o Concat(Tail(fs))

Bodies == {Concat(fs) : fs \in SeqsUpTo(Fragments, MaxLines)}

InitTransform ==
    /\ IdleRun
    /\ IdleResolve
    /\ content \in Bodies
    /\ currentModulePath \in {P_x, P_a_x_js}
    /\ transformed = PendingText

TransformModuleContent ==
    /\ transformed = PendingText
    /\ currentModulePath # <<>>
    /\ transformed' = transformModuleContent(content, currentModulePath)
    /\ UNCHANGED <<content, currentModulePath>>
    /\ UNCHANGED runVars
    /\ UNCHANGED resolveVars

NextTransform == TransformModuleContent

SpecTransform == InitTransform /\ [][NextTransform]_vars

\* The tokens of kind k in a text, in order.
Of(text, k) == SelectSeq(text, LAMBDA t : t.k = k)

\* './a/B'
Spec_a_B == <<".", "/", "a", "/", "B">>

\* The specifier the code resolves for a dependency load in this module.
SpecifierOf(load) ==
    StripExtension(calculateRelativePath(currentModulePath, load.b))

\* C5: import round-trip.  For a body with one annotated dependency load,
\* resolved to './a/B', whose binding is used as binding["Foo"], the
\* rewritten body holds  import { Foo } from './a/B';  and no loader
\* boilerplate, and every binding["Foo"] has become the identifier Foo.
C5_ImportRoundTrip ==
    (/\ transformed # PendingText
     /\ Len(Of(content, "himport")) = 1
     /\ SpecifierOf(Of(content, "himport")[1]) = Spec_a_B
     /\ Of(content, "usebr") # <<>>
     /\ \A i \in 1..Len(content) :
            content[i].k = "usebr" =>
                /\ content[i].a = Of(content, "himport")[1].a
                /\ content[i].b = N_Foo)
    => /\ Holds(transformed, "import-named")
       /\ \A i \in 1..Len(transformed) :
              transformed[i].k \in {"import-named", "import-default"}
                  => transformed[i] = Tok("import-named", N_Foo, Spec_a_B)
       /\ ~Holds(transformed, "himport")
       /\ ~Holds(transformed, "usebr")
       /\ Len(Of(transformed, "ident")) = Len(Of(content, "usebr"))
       /\ \A i \in 1..Len(transformed) :
              transformed[i].k = "ident" => transformed[i].a = N_Foo

\* The binding registrations of the body.
Registrations == Of(content, "expbind")

\* The body declares a class of that name, with or without a base class.
DeclaresClass(name) ==
    \E i \in 1..Len(content) : content[i].k \in {"class", "classx"} /\ content[i].a = name

\* The body declares a function of that name.
DeclaresFunction(name) ==
    \E i \in 1..Len(content) : content[i].k = "func" /\ content[i].a = name

\* In the text, every declaration of the name with one of the kinds follows
\* an export qualifier.
ExportedAtDeclaration(text, kinds, name) ==
    \A i \in 1..Len(text) :
        (text[i].k \in kinds /\ text[i].a = name)
            => (i > 1 /\ text[i - 1] = ExportKw)

\* C6: export classification by declaration kind.  For a binding
\* registration whose local name has a class declaration in the body, or
\* failing that a function declaration, the declaration itself carries the
\* export qualifier in the rewritten body and no trailing export clause is
\* appended for the binding.
C6_ExportAtDeclaration ==
    transformed # PendingText =>
        \A r \in 1..Len(Registrations) :
            LET name == Registrations[r].b IN
            /\ DeclaresClass(name) =>
                   /\ ExportedAtDeclaration(transformed, {"class", "classx"}, name)
                   /\ Tok("export-clause", name, <<>>) \notin Range(transformed)
            /\ (~DeclaresClass(name) /\ DeclaresFunction(name)) =>
                   /\ ExportedAtDeclaration(transformed, {"func"}, name)
                   /\ Tok("export-clause", name, <<>>) \notin Range(transformed)

\* The registrations whose local expression has neither a class nor a
\* function declaration in the body.
Undeclared ==
    SelectSeq(Registrations, LAMBDA t : ~DeclaresClass(t.b) /\ ~DeclaresFunction(t.b))

\* C7: export fallback.  Each registration without a class or function
\* declaration gets a trailing clause  export { Name };  that names the
\* external name of the registration, and the clauses are in detection
\* order.
C7_ExportFallbackClause ==
    transformed # PendingText =>
        /\ Len(Of(transformed, "export-clause")) = Len(Undeclared)
        /\ \A r \in 1..Len(Undeclared) :
               Of(transformed, "export-clause")[r].a = Undeclared[r].a

\* The kinds of token that refer to a binding of the bundler.
InternalKinds ==
    {"rmark", "himport", "hdefault", "expbind", "reqcall", "expdefault",
     "usebr", "usedef", "usedir"}

\* The name holds the generated suffix of a local binding, whole or cut.
IsGeneratedName(name) ==
    \E i \in 1..Len(name) : name[i] \in Suffix \cup {Unterminated(x) : x \in Suffix}

\* C9: pipeline postcondition.  The text returned by transformModuleContent
\* refers to no binding of the bundler: no __webpack_require__, no
\* __webpack_exports__, no __WEBPACK_IMPORTED_MODULE_n__ name.
C9_NoInternalBinding ==
    transformed # PendingText =>
        \A i \in 1..Len(transformed) :
            /\ transformed[i].k \notin InternalKinds
            /\ ~IsGeneratedName(transformed[i].a)

\* The export qualifiers in a row that end just before position i.
RECURSIVE QualifiersBefore(_, _)
QualifiersBefore(text, i) ==
    IF i > 1 /\ text[i - 1] = ExportKw THEN 1 + QualifiersBefore(text, i - 1) ELSE 0

\* C13: after transformExports every class or function declaration of the
\* body carries at most one export qualifier, whatever the sequence of
\* binding registrations (two registrations may return the same local class
\* or function), and only a declaration named by a registration carries one.
C13_SingleExportQualifier ==
    transformed # PendingText =>
        \A i \in 1..Len(transformed) :
            transformed[i].k \in {"class", "classx", "func"} =>
                /\ QualifiersBefore(transformed, i) <= 1
                /\ QualifiersBefore(transformed, i) = 1 =>
                       \E r \in 1..Len(Registrations) :
                           Registrations[r].b = transformed[i].a

\* The blank lines in a row at i: k blank lines are k + 1 newlines.
BlankLinesAt(text, i) ==
    LET n == NewlineRun(SubSeq(text, i, Len(text))) IN IF n = 0 THEN 0 ELSE n - 1

\* C12: finalizer normalization.  The text after cleanupWebpackArtifacts and
\* the final trim has no three or more blank lines in a row, no line that
\* ends with a space or a tab (so no line of only spaces or tabs), and no
\* whitespace at its start or its end.
C12_FinalizerNormalization ==
    transformed # PendingText =>
        /\ \A i \in 1..Len(transformed) : BlankLinesAt(transformed, i) < 3
        /\ \A i \in 1..Len(transformed) :
               transformed[i].k = "sp" =>
                   /\ i < Len(transformed)
                   /\ transformed[i + 1].k # "nl"
        /\ transformed # <<>> =>
               /\ ~IsSpace(transformed[1])
               /\ ~IsSpace(transformed[Len(transformed)])

(***************************************************************************)
(* SpecResolve: calculateRelativePath on every pair of logical paths.      *)
(***************************************************************************)
InitResolve ==
    /\ IdleRun
    /\ IdleTransform
    /\ fromPath \in LogicalPaths
    /\ toPath \in LogicalPaths
    /\ relativePath = Pending

CalculateRelativePath ==
    /\ relativePath = Pending
    /\ fromPath # <<>>
    /\ relativePath' = calculateRelativePath(fromPath, toPath)
    /\ UNCHANGED <<fromPath, toPath>>
    /\ UNCHANGED runVars
    /\ UNCHANGED transformVars

NextResolve == CalculateRelativePath

SpecResolve == InitResolve /\ [][NextResolve]_vars

\* C4: every specifier returned by calculateRelativePath begins with "./" or
\* "../", for every pair of logical paths.
C4_RelativeSpecifier ==
    relativePath # Pending =>
        \/ StartsWith(relativePath, <<".", "/">>)
        \/ StartsWith(relativePath, <<".", ".", "/">>)

====
